---- MODULE Spec2Model ----
(***************************************************************************)
(* The Kanboard service of bugwarrior (bugwarrior/services/kanboard.py).   *)
(*                                                                         *)
(* The service is given a configuration, validates it, and then walks the  *)
(* remote Kanboard server: boards -> lists of a board -> cards of a list   *)
(* -> subtasks of a card, handing one issue per subtask and per card to    *)
(* the host, which turns each into a taskwarrior record.                   *)
(*                                                                         *)
(* Python values are modelled as follows.  A dict is a function whose      *)
(* DOMAIN is its set of keys, so that a missing key is a KeyError.  None   *)
(* is the empty sequence and any other optional value v is <<v>>.          *)
(* Strings the code inspects character by character (the base URL, label   *)
(* names) are sequences of one-character strings; strings it only copies   *)
(* or compares are TLA+ strings.                                           *)
(***************************************************************************)
EXTENDS Integers, Sequences, FiniteSets, TLC

VARIABLES
  config,               \* self.config: the options of this service's section
  remote,               \* the data the Kanboard server holds
  KANBOARD_CONNECTION,  \* self.KANBOARD_CONNECTION
  constructed,          \* how many Kanboard clients have been constructed
  calls,                \* the JSON-RPC calls issued, in order
  pc,                   \* where the run stands
  error,                \* the exception that ended the run, "" when none
  bi,                   \* get_boards: how many boards it has yielded
  boardsBuf,            \* get_boards: the result of get_all_projects
  board,                \* issues: the current board, None before the first
  lists,                \* issues: the lists get_lists returned for board
  li,                   \* issues: how many of them have been taken
  lst,                  \* issues: the current list
  listextra,            \* issues: the dict built at line 110
  cards,                \* get_cards: the result of get_all_tasks
  ci,                   \* get_cards: how many cards it has yielded
  card,                 \* issues: the current card, None before the first
  subtasks,             \* get_subtasks: the result of get_all_subtasks
  si,                   \* get_subtasks: how many subtasks it has yielded
  emitted,              \* the records handed to the host, in order
  yielded,              \* the boards get_boards has yielded, in order
  enumerated,           \* the (board entry, list) pairs whose cards are exhausted
  ret                   \* the value the last fetch operation returned

vars == <<config, remote, KANBOARD_CONNECTION, constructed, calls, pc, error,
          bi, boardsBuf, board, lists, li, lst, listextra, cards, ci,
          card, subtasks, si, emitted, yielded, enumerated, ret>>

iterVars == <<bi, boardsBuf, board, lists, li, lst, listextra, cards, ci,
              card, subtasks, si, yielded, enumerated>>

-----------------------------------------------------------------------------
(* Bounds of the model. *)

\* The longest include_boards option.
MaxInclude == 2

\* The most subtasks the remote holds for one card.
MaxSubtasks == 2

\* The most labels on one card or subtask.
MaxLabels == 2

\* The longest include_lists or exclude_lists option.
MaxTitles == 2

-----------------------------------------------------------------------------
(* Python helpers. *)

None == <<>>

Some(v) == <<v>>

\* All sequences over S of length at most n.
SeqsUpTo(S, n) == UNION {[1..k -> S] : k \in 0..n}

\* str.startswith
StartsWith(s, prefix) ==
  /\ Len(s) >= Len(prefix)
  /\ SubSeq(s, 1, Len(prefix)) = prefix

\* x in list
InList(x, l) == \E i \in 1..Len(l) : l[i] = x

-----------------------------------------------------------------------------
(* The configuration. *)

\* 'opt' in self.config
Has(opt) == opt \in DOMAIN config

\* self.config.get(opt): the value, or None when the option is not set.
ConfigGet(opt) == IF Has(opt) THEN Some(config[opt]) ELSE None

\* bugwarrior.config.asbool
AsBool(v) == v \in {"y", "yes", "t", "true", "1", "on"}

DEFAULT_LABEL_TEMPLATE == "{{label|replace(' ', '_')}}"

\* KanboardService.get_service_metadata
get_service_metadata ==
  [import_labels_as_tags |->
     IF Has("import_labels_as_tags") THEN AsBool(config["import_labels_as_tags"])
     ELSE FALSE,
   label_template |->
     IF Has("label_template") THEN config["label_template"]
     ELSE DEFAULT_LABEL_TEMPLATE]

-----------------------------------------------------------------------------
(* The remote server.  Its answers are those of the Kanboard JSON-RPC API   *)
(* on the data it holds, in the shape the service reads them (the list      *)
(* itself for projects, its result attribute for the others); an argument   *)
(* is an integer id or, when the caller passes one, a whole record.  What  *)
(* a server does with a task_id that is a record is its own affair: it      *)
(* rejects the call, matches no subtask, or takes the id of the record.     *)

IntArg(n) == [tag |-> "int", int |-> n]

DictArg(d) == [tag |-> "dict", dict |-> d]

\* The status code of an open task.
StatusActive == 1

get_all_projects == remote.projects

get_project_by_id(project_id) ==
  LET found == SelectSeq(remote.projects, LAMBDA p : p.id = project_id)
  IN  IF found = <<>> THEN None ELSE Some(found[1])

get_columns(project_id) ==
  SelectSeq(remote.columns, LAMBDA c : c.project_id = project_id)

get_all_tasks(project_id, status_id) ==
  SelectSeq(remote.tasks,
            LAMBDA t : t.project_id = project_id /\ t.is_active = status_id)

\* What servers do with a task_id that is a record.
RecordModes == {"reject", "nomatch", "resolve"}

\* A server that checks its arguments rejects a task_id that is no integer.
get_all_subtasks_fails(task_id) == task_id.tag # "int" /\ remote.onRecord = "reject"

get_all_subtasks(task_id) ==
  IF task_id.tag = "int"
  THEN SelectSeq(remote.subtasks, LAMBDA s : s.task_id = task_id.int)
  ELSE IF remote.onRecord = "resolve"
  THEN SelectSeq(remote.subtasks, LAMBDA s : s.task_id = task_id.dict["id"])
  ELSE <<>>

get_all_comments(task_id) ==
  SelectSeq(remote.comments, LAMBDA c : c.task_id = task_id)

-----------------------------------------------------------------------------
(* Connection management.  A service state s is the part of the object the  *)
(* fetch operations read and write: the connection, plus the count of       *)
(* constructions and the log of calls.                                      *)

Svc == [conn |-> KANBOARD_CONNECTION, constructed |-> constructed, calls |-> calls]

HTTP == <<"h", "t", "t", "p">>

HTTPS_SCHEME == <<"h", "t", "t", "p", "s", ":", "/", "/">>

HTTP_SCHEME == <<"h", "t", "t", "p", ":", "/", "/">>

\* connect, line 201: None.startswith raises when base_url is not set.
ConnectRaises == ~Has("base_url")

\* connect, lines 201-204.
ConnectUrl ==
  IF ~StartsWith(config["base_url"], HTTP)
  THEN HTTPS_SCHEME \o config["base_url"]
  ELSE config["base_url"]

\* kanboard.Kanboard(url, username, password); serial tells the objects apart.
Kanboard(url, username, password, serial) ==
  [url |-> url, username |-> username, password |-> password, serial |-> serial]

\* A connect that constructs a client whether or not one is there.
connect_always(s) ==
  [s EXCEPT !.conn = Some(Kanboard(ConnectUrl, "jsonrpc", ConfigGet("token"),
                                   s.constructed + 1)),
            !.constructed = @ + 1]

\* connect, lines 206-207.
connect(s) ==
  IF s.conn = None
  THEN [s EXCEPT !.conn = Some(Kanboard(ConnectUrl, "jsonrpc", ConfigGet("token"),
                                        s.constructed + 1)),
                 !.constructed = @ + 1]
  ELSE s

\* self.KANBOARD_CONNECTION.<method>(**params) on the current connection.
rpc(s, method, params) ==
  [s EXCEPT !.calls =
     Append(@, [method |-> method, params |-> params, conn |-> s.conn])]

\* What a fetch operation gives back: the service state after it, and its
\* value or the exception it raised.
Return(s, val) == [s |-> s, err |-> "", val |-> val]

Raise(s, err) == [s |-> s, err |-> err, val |-> <<>>]

\* A fetch operation opens with connect() and then uses the connection.
CannotFetch(s) == ConnectRaises \/ connect(s).conn = None

-----------------------------------------------------------------------------
(* The fetch layer. *)

RECURSIVE WithoutRepeats(_)
\* A list without the later occurrences of its elements.
WithoutRepeats(l) ==
  IF l = <<>> THEN <<>>
  ELSE LET front == WithoutRepeats(SubSeq(l, 1, Len(l) - 1))
       IN  IF InList(l[Len(l)], front) THEN front ELSE Append(front, l[Len(l)])

\* Configured board ids, each taken once.
IncludeBoardIdsOnce == WithoutRepeats(config["include_boards"])

\* get_boards, line 139: the configured board ids.
IncludeBoardIds == config["include_boards"]

\* One next() of the generator get_boards, which has yielded n boards and
\* holds buf, the answer of get_all_projects.  A board the remote does not
\* know is yielded as None.
get_boards_next(s, n, buf) ==
  IF n = 0 /\ CannotFetch(s) THEN Raise(s, "AttributeError")
  ELSE
    LET s1 == IF n = 0 THEN connect(s) ELSE s
    IN  IF Has("include_boards")
        THEN IF n < Len(IncludeBoardIds)
             THEN LET boardid == IncludeBoardIds[n + 1]
                  IN  Return(rpc(s1, "get_project_by_id",
                                 [project_id |-> IntArg(boardid)]),
                             [stop |-> FALSE, board |-> get_project_by_id(boardid),
                              buf |-> buf])
             ELSE Return(s1, [stop |-> TRUE, board |-> None, buf |-> buf])
        ELSE LET s2 == IF n = 0 THEN rpc(s1, "get_all_projects", <<>>) ELSE s1
                 boards == IF n = 0 THEN get_all_projects ELSE buf
             IN  IF n < Len(boards)
                 THEN Return(s2, [stop |-> FALSE, board |-> Some(boards[n + 1]),
                                  buf |-> boards])
                 ELSE Return(s2, [stop |-> TRUE, board |-> None, buf |-> boards])

\* A configured list of titles is applied when it is set and not empty.
Truthy(opt) == opt # None /\ opt[1] # <<>>

\* A get_lists that applies include_lists and forgets exclude_lists.
FilterListsIncludeOnly(columns) ==
  LET include_lists == ConfigGet("include_lists")
  IN  IF Truthy(include_lists)
      THEN SelectSeq(columns, LAMBDA l : InList(l["title"], include_lists[1]))
      ELSE columns

\* get_lists, lines 156-164.
FilterLists(columns) ==
  LET include_lists == ConfigGet("include_lists")
      exclude_lists == ConfigGet("exclude_lists")
      included == IF Truthy(include_lists)
                  THEN SelectSeq(columns, LAMBDA l : InList(l["title"], include_lists[1]))
                  ELSE columns
  IN  IF Truthy(exclude_lists)
      THEN SelectSeq(included, LAMBDA l : ~InList(l["title"], exclude_lists[1]))
      ELSE included

\* get_lists
get_lists(s, board_id) ==
  IF CannotFetch(s) THEN Raise(s, "AttributeError")
  ELSE Return(rpc(connect(s), "get_columns", [project_id |-> IntArg(board_id)]),
              FilterLists(get_columns(board_id)))

\* get_cards, read to its end.
get_cards(s, list_id) ==
  IF CannotFetch(s) THEN Raise(s, "AttributeError")
  ELSE Return(rpc(connect(s), "get_all_tasks",
                  [project_id |-> IntArg(list_id), status_id |-> IntArg(StatusActive)]),
              get_all_tasks(list_id, StatusActive))

\* get_comments, read to its end.
get_comments(s, card_id) ==
  IF CannotFetch(s) THEN Raise(s, "AttributeError")
  ELSE Return(rpc(connect(s), "get_all_comments", [task_id |-> IntArg(card_id)]),
              get_all_comments(card_id))

\* get_subtasks, read to its end; card_id is passed on as it was given.
get_subtasks(s, card_id) ==
  IF CannotFetch(s) THEN Raise(s, "AttributeError")
  ELSE LET s1 == rpc(connect(s), "get_all_subtasks", [task_id |-> card_id])
       IN  IF get_all_subtasks_fails(card_id) THEN Raise(s1, "ClientError")
           ELSE Return(s1, get_all_subtasks(card_id))

\* IssueService.build_annotations: one annotation per (author, text) pair.
build_annotations(pairs) ==
  [i \in 1..Len(pairs) |-> <<"@", pairs[i][1], " - ", pairs[i][2]>>]

\* annotations
annotations(s, card_json) ==
  LET got == get_comments(s, card_json["id"])
  IN  IF got.err # "" THEN got
      ELSE Return(got.s,
                  build_annotations(
                    [i \in 1..Len(got.val) |->
                       <<got.val[i]["memberCreator"]["username"],
                         got.val[i]["data"]["text"]>>]))

-----------------------------------------------------------------------------
(* The mapping layer. *)

\* Issue.parse_date: no date stays no date.
parse_date(due) == IF due = None THEN None ELSE Some(<<"utc", due[1]>>)

RECURSIVE Replace(_, _, _)
\* The jinja2 filter replace(old, new) on a string of characters.
Replace(str, old, new) ==
  IF str = <<>> THEN <<>>
  ELSE <<IF Head(str) = old THEN new ELSE Head(str)>> \o Replace(Tail(str), old, new)

\* Template(template).render(twdict, label=label), for the templates of the model.
Render(template, twdict, label) ==
  CASE template = DEFAULT_LABEL_TEMPLATE -> Replace(label, " ", "_")
    [] template = "{{label}}" -> label
    [] OTHER -> <<template>>

\* KanboardIssue.get_tags
get_tags(record, origin, twdict) ==
  [i \in 1..Len(record["labels"]) |->
     Render(origin["label_template"], twdict, record["labels"][i]["name"])]

\* A to_taskwarrior that sets tags whatever import_labels_as_tags says.
to_taskwarrior_always_tags(record, extra, origin) ==
  LET twdict ==
        [project |-> extra["boardname"],
         priority |-> "M",
         due |-> parse_date(record["due"]),
         kanboardcard |-> record["name"],
         kanboardcardid |-> record["id"],
         kanboardboard |-> extra["boardname"],
         kanboardlist |-> extra["listname"],
         kanboardshortlink |-> record["shortLink"],
         kanboardshorturl |-> record["shortUrl"],
         kanboardurl |-> record["url"],
         annotations |-> IF "annotations" \in DOMAIN extra THEN extra["annotations"]
                         ELSE <<>>]
  IN  twdict @@ [tags |-> get_tags(record, origin, twdict)]

\* KanboardIssue.to_taskwarrior
to_taskwarrior(record, extra, origin) ==
  LET twdict ==
        [project |-> extra["boardname"],
         priority |-> "M",
         due |-> parse_date(record["due"]),
         kanboardcard |-> record["name"],
         kanboardcardid |-> record["id"],
         kanboardboard |-> extra["boardname"],
         kanboardlist |-> extra["listname"],
         kanboardshortlink |-> record["shortLink"],
         kanboardshorturl |-> record["shortUrl"],
         kanboardurl |-> record["url"],
         annotations |-> IF "annotations" \in DOMAIN extra THEN extra["annotations"]
                         ELSE <<>>]
  IN  IF origin["import_labels_as_tags"]
      THEN twdict @@ [tags |-> get_tags(record, origin, twdict)]
      ELSE twdict

\* KanboardIssue.UNIQUE_KEY of an output record.
UniqueKey(twdict) == <<twdict["kanboardcardid"]>>

\* issues, lines 113-115 and 117-119: the issue of one record, as the host
\* receives it.
issue_of(s, record, extra) ==
  LET ann == annotations(s, record)
  IN  IF ann.err # "" THEN ann
      ELSE Return(ann.s,
                  to_taskwarrior(record, extra @@ [annotations |-> ann.val],
                                 get_service_metadata))

-----------------------------------------------------------------------------
(* The data of the remote server.  Two boards; five columns whose ids start *)
(* after colBase, so that with colBase = 0 column ids are also board ids;   *)
(* four cards, one of them closed; n subtasks for each of the cards 1 and   *)
(* 100, numbered from 1 in the subtasks' own id space.                      *)

Projects == <<[id |-> 2, name |-> "Ops"], [id |-> 1, name |-> "Proj"]>>

\* A column as getColumns gives it; nameMode says whether it also carries a
\* 'name' key, and whether that name is its title.
Column(id, title, project_id, nameMode) ==
  [id |-> id, title |-> title, project_id |-> project_id]
    @@ (CASE nameMode = "absent" -> <<>>
          [] nameMode = "title" -> [name |-> title]
          [] OTHER -> [name |-> "Stage"])

Columns(colBase, nameMode) ==
  << Column(colBase + 1, "Backlog", 1, nameMode),
     Column(colBase + 2, "Doing", 1, nameMode),
     Column(colBase + 3, "Done", 1, nameMode),
     Column(colBase + 4, "Doing", 2, nameMode),
     Column(colBase + 5, "Doing", 2, nameMode) >>

\* A card or a subtask: the attributes the mapping reads, plus where it lives.
Item(kind, id, labels) ==
  [id |-> id, name |-> <<kind, id>>, shortLink |-> <<kind, "l", id>>,
   shortUrl |-> <<kind, "s", id>>, url |-> <<kind, "u", id>>,
   idShort |-> id, due |-> None, labels |-> labels]

Card(id, project_id, column_id, is_active, labels) ==
  Item("card", id, labels)
    @@ [project_id |-> project_id, column_id |-> column_id, is_active |-> is_active]

Subtask(id, task_id, labels) ==
  Item("subtask", id, labels) @@ [task_id |-> task_id]

Label(name) == [name |-> name]

Tasks(colBase, labels) ==
  << Card(100, 1, colBase + 2, 1, labels),
     Card(101, 1, colBase + 2, 0, <<>>),
     Card(102, 1, colBase + 3, 1, <<>>),
     Card(1, 2, colBase + 4, 1, labels) >>

Subtasks(n, labels) ==
  [i \in 1..(2 * n) |-> IF i <= n THEN Subtask(i, 1, labels)
                        ELSE Subtask(i, 100, <<>>)]

Comments ==
  << [task_id |-> 100, memberCreator |-> [username |-> "alice"], data |-> [text |-> "ok"]],
     [task_id |-> 1, memberCreator |-> [username |-> "bob"], data |-> [text |-> "no"]],
     [task_id |-> 1, memberCreator |-> [username |-> "alice"], data |-> [text |-> "so"]] >>

Remote(colBase, nameMode, n, onRecord, labels) ==
  [projects |-> Projects,
   columns |-> Columns(colBase, nameMode),
   tasks |-> Tasks(colBase, labels),
   subtasks |-> Subtasks(n, labels),
   comments |-> Comments,
   onRecord |-> onRecord]

LabelNames == { <<"a">>, <<"I", "n", " ", "P">>, <<" ">> }

LabelLists == SeqsUpTo({Label(n) : n \in LabelNames}, MaxLabels)

-----------------------------------------------------------------------------
(* The options a configuration may hold. *)

NoOption == [k \in {} |-> 0]

BaseUrls ==
  { <<"k", ".", "i", "o">>,
    HTTP_SCHEME \o <<"k", ".", "i", "o">>,
    HTTPS_SCHEME \o <<"k", ".", "i", "o">>,
    <<"h", "t", "t", "p", "b", "i", "n">> }

AuthOptions ==
  { a @@ t @@ u :
      a \in {NoOption, [api_key |-> "key"]},
      t \in {NoOption, [token |-> "key"]},
      u \in {NoOption} \cup {[base_url |-> b] : b \in BaseUrls} }

\* Board ids a user may configure: those of the remote, and one it lacks.
ConfigurableBoardIds == {1, 2, 3}

BoardOptions ==
  {NoOption} \cup {[include_boards |-> ids] : ids \in SeqsUpTo(ConfigurableBoardIds, MaxInclude)}

Titles == {"Backlog", "Doing", "Done"}

TagOptions ==
  { f @@ t :
      f \in {NoOption} \cup {[import_labels_as_tags |-> v] : v \in {"true", "false", "1", "no"}},
      t \in {NoOption, [label_template |-> "{{label}}"]} }

-----------------------------------------------------------------------------
(* A run of the service: the host validates the configuration and then     *)
(* reads the generator issues() to its end.                                *)

Fail(err) == /\ pc' = "error" /\ error' = err

\* State of the service after an operation that gave back out.
Keep(out) ==
  /\ KANBOARD_CONNECTION' = out.s.conn
  /\ constructed' = out.s.constructed
  /\ calls' = out.s.calls

\* validate_config: die() when there is no api_key.
ValidateConfig ==
  /\ pc = "config"
  /\ pc' = IF ~Has("api_key") THEN "died" ELSE "boards"
  /\ UNCHANGED <<config, remote, KANBOARD_CONNECTION, constructed, calls, error,
                 emitted, ret, iterVars>>

\* issues, lines 108-109: the next board of get_boards, and its lists.
NextBoard ==
  /\ pc = "boards"
  /\ LET nxt == get_boards_next(Svc, bi, boardsBuf)
     IN  IF nxt.err # ""
         THEN /\ Fail(nxt.err) /\ Keep(nxt)
              /\ UNCHANGED <<bi, boardsBuf, board, lists, li, yielded>>
         ELSE IF nxt.val.stop
         THEN /\ pc' = "done" /\ Keep(nxt)
              /\ boardsBuf' = nxt.val.buf
              /\ UNCHANGED <<error, bi, board, lists, li, yielded>>
         ELSE /\ bi' = bi + 1
              /\ boardsBuf' = nxt.val.buf
              /\ board' = nxt.val.board
              /\ yielded' = Append(yielded, nxt.val.board)
              /\ IF nxt.val.board = None
                 THEN \* board['id'] on None
                      /\ Fail("TypeError") /\ Keep(nxt)
                      /\ UNCHANGED <<lists, li>>
                 ELSE LET got == get_lists(nxt.s, nxt.val.board[1]["id"])
                      IN  /\ Keep(got)
                          /\ IF got.err # ""
                             THEN Fail(got.err) /\ UNCHANGED <<lists, li>>
                             ELSE /\ lists' = got.val /\ li' = 0
                                  /\ pc' = "lists" /\ UNCHANGED error
  /\ UNCHANGED <<config, remote, emitted, ret, lst, listextra, cards, ci, card,
                 subtasks, si, enumerated>>

\* issues, lines 109-111: the next list, its listextra, and its cards.
NextList ==
  /\ pc = "lists"
  /\ IF li >= Len(lists)
     THEN /\ pc' = "boards"
          /\ UNCHANGED <<KANBOARD_CONNECTION, constructed, calls, error, li, lst,
                         listextra, cards, ci>>
     ELSE LET l == lists[li + 1]
          IN  /\ li' = li + 1
              /\ lst' = Some(l)
              /\ IF "name" \notin DOMAIN l
                 THEN \* lst['name']
                      /\ Fail("KeyError")
                      /\ UNCHANGED <<KANBOARD_CONNECTION, constructed, calls,
                                     listextra, cards, ci>>
                 ELSE LET got == get_cards(Svc, l["id"])
                      IN  /\ listextra' = [boardname |-> board[1]["name"],
                                           listname |-> l["name"]]
                          /\ Keep(got)
                          /\ IF got.err # ""
                             THEN Fail(got.err) /\ UNCHANGED <<cards, ci>>
                             ELSE /\ cards' = got.val /\ ci' = 0
                                  /\ pc' = "cards" /\ UNCHANGED error
  /\ UNCHANGED <<config, remote, emitted, ret, bi, boardsBuf, board, lists,
                 card, subtasks, si, yielded, enumerated>>

\* What the host is handed, with where it came from.
Emitted(twdict, kind, record, of) ==
  [rec |-> twdict, kind |-> kind, id |-> record["id"], card |-> of["id"],
   entry |-> bi, board |-> board[1], list |-> lst[1]]

\* issues, lines 113-115: the issue of the k-th subtask of card c, handed to
\* the host; issues is suspended in the loop over the subtasks.
YieldSubtask(s, subs, k, c) ==
  LET out == issue_of(s, subs[k], listextra)
  IN  /\ Keep(out)
      /\ IF out.err # ""
         THEN Fail(out.err) /\ UNCHANGED emitted
         ELSE /\ pc' = "subtasks" /\ UNCHANGED error
              /\ emitted' = Append(emitted, Emitted(out.val, "subtask", subs[k], c))

\* issues, lines 117-119: the issue of card c, handed to the host; issues is
\* suspended in the loop over the cards.
YieldCard(s, c) ==
  LET out == issue_of(s, c, listextra)
  IN  /\ Keep(out)
      /\ IF out.err # ""
         THEN Fail(out.err) /\ UNCHANGED emitted
         ELSE /\ pc' = "cards" /\ UNCHANGED error
              /\ emitted' = Append(emitted, Emitted(out.val, "card", c, c))

\* issues, lines 111-119, resumed after a card's issue or entered for a new
\* list: the next card and its subtasks, up to the next issue handed to the
\* host, which is that of the first subtask, or the card's when it has none.
NextCard ==
  /\ pc = "cards"
  /\ IF ci >= Len(cards)
     THEN /\ pc' = "lists"
          /\ enumerated' = Append(enumerated, [entry |-> bi, list |-> lst[1]])
          /\ UNCHANGED <<KANBOARD_CONNECTION, constructed, calls, error, ci, card,
                         subtasks, si, emitted>>
     ELSE LET c == cards[ci + 1]
              subs == get_subtasks(Svc, DictArg(c))
          IN  /\ ci' = ci + 1
              /\ card' = Some(c)
              /\ UNCHANGED enumerated
              /\ IF subs.err # ""
                 THEN /\ Fail(subs.err) /\ Keep(subs)
                      /\ UNCHANGED <<subtasks, si, emitted>>
                 ELSE /\ subtasks' = subs.val
                      /\ IF subs.val = <<>>
                         THEN si' = 0 /\ YieldCard(subs.s, c)
                         ELSE si' = 1 /\ YieldSubtask(subs.s, subs.val, 1, c)
  /\ UNCHANGED <<config, remote, ret, bi, boardsBuf, board, lists, li, lst,
                 listextra, cards, yielded>>

\* issues, lines 112-119, resumed after a subtask's issue: the issue of the
\* next subtask, or that of the card after its last subtask.
NextSubtask ==
  /\ pc = "subtasks"
  /\ IF si < Len(subtasks)
     THEN si' = si + 1 /\ YieldSubtask(Svc, subtasks, si + 1, card[1])
     ELSE UNCHANGED si /\ YieldCard(Svc, card[1])
  /\ UNCHANGED <<config, remote, ret, bi, boardsBuf, board, lists, li, lst,
                 listextra, cards, ci, card, subtasks, enumerated, yielded>>

Next == ValidateConfig \/ NextBoard \/ NextList \/ NextCard \/ NextSubtask

InitService ==
  /\ KANBOARD_CONNECTION = None
  /\ constructed = 0
  /\ calls = <<>>
  /\ error = ""
  /\ bi = 0 /\ boardsBuf = <<>> /\ board = None
  /\ lists = <<>> /\ li = 0 /\ lst = None /\ listextra = NoOption
  /\ cards = <<>> /\ ci = 0
  /\ card = None /\ subtasks = <<>> /\ si = 0
  /\ emitted = <<>> /\ yielded = <<>> /\ enumerated = <<>>
  /\ ret = <<>>

\* A configuration with everything the service requires.
DefaultAuth ==
  [api_key |-> "key", token |-> "key", base_url |-> <<"k", ".", "i", "o">>]

\* The configurations of a run: what is required varies while the rest is
\* left out, and the rest varies while what is required is there.
RunConfigs ==
  AuthOptions
    \cup { DefaultAuth @@ b @@ f @@ t :
             b \in BoardOptions,
             f \in {NoOption,
                    [include_lists |-> <<"Doing", "Done">>, exclude_lists |-> <<"Done">>]},
             t \in {NoOption, [import_labels_as_tags |-> "true"]} }

Remotes ==
  { Remote(colBase, nameMode, n, onRecord, <<Label(<<"I", "n", " ", "P">>)>>) :
      colBase \in {0, 10}, nameMode \in {"absent", "title", "other"},
      n \in 0..MaxSubtasks, onRecord \in RecordModes }

\* The configurations and remotes of the runs in which labels and the
\* options on tags vary.
TagConfigs == {DefaultAuth @@ t : t \in TagOptions}

LabelledRemotes ==
  { Remote(0, "title", n, "resolve", labels) : n \in 0..MaxSubtasks, labels \in LabelLists }

Init ==
  /\ \/ config \in RunConfigs /\ remote \in Remotes
     \/ config \in TagConfigs /\ remote \in LabelledRemotes
  /\ pc = "config"
  /\ InitService

Spec == Init /\ [][Next]_vars

-----------------------------------------------------------------------------
(* Properties of a run. *)

\* The remote subtasks of a card, in remote order.
SubtasksOf(card_id) == SelectSeq(remote.subtasks, LAMBDA x : x.task_id = card_id)

\* The records emitted under one entry of the board enumeration.
RecordsOf(entry) ==
  LET under == SelectSeq(emitted, LAMBDA e : e.entry = entry)
  IN  [i \in 1..Len(under) |-> under[i].rec]

\* The cards emitted under one list of one entry, by id.
CardsUnder(entry, list_id) ==
  LET under == SelectSeq(emitted, LAMBDA e : /\ e.entry = entry
                                            /\ e.list["id"] = list_id
                                            /\ e.kind = "card")
  IN  [i \in 1..Len(under) |-> under[i].id]

\* C1: a card's record is emitted right after one record per subtask the
\* remote holds for the card's id, in remote subtask order, so that a card
\* with N subtasks accounts for N+1 consecutive records.
C1_SubtasksThenCard ==
  \A i \in 1..Len(emitted) :
    emitted[i].kind = "card" =>
      LET subs == SubtasksOf(emitted[i].id)
          N == Len(subs)
      IN  /\ i > N
          /\ \A k \in 1..N :
               /\ emitted[i - N + k - 1].kind = "subtask"
               /\ emitted[i - N + k - 1].id = subs[k]["id"]
               /\ emitted[i - N + k - 1].card = emitted[i].id
               /\ emitted[i - N + k - 1].entry = emitted[i].entry

\* A required option is absent.
MissingRequired == ~Has("api_key") \/ ~Has("token") \/ ~Has("base_url")

\* C4: in a run with a required option absent, no client is constructed
\* with a missing credential and no JSON-RPC call is issued.
C4_MissingConfigIsFatal ==
  MissingRequired =>
    /\ calls = <<>>
    /\ KANBOARD_CONNECTION # None => KANBOARD_CONNECTION[1].password # None

\* C5: once the cards of a list are exhausted, the cards emitted under it are
\* the active remote cards of that column, in remote order.
C5_CardsOfTheColumn ==
  \A i \in 1..Len(enumerated) :
    LET column == enumerated[i].list["id"]
        expected == SelectSeq(remote.tasks,
                              LAMBDA t : t.column_id = column /\ t.is_active = StatusActive)
    IN  CardsUnder(enumerated[i].entry, column) = [k \in 1..Len(expected) |-> expected[k].id]

\* C6: the context built for a list names the board and the title of the
\* column, and every record emitted carries them as project, board and list.
C6_BoardAndListContext ==
  /\ error # "KeyError"
  /\ pc \in {"cards", "subtasks"} =>
       /\ listextra["boardname"] = board[1]["name"]
       /\ listextra["listname"] = lst[1]["title"]
  /\ \A i \in 1..Len(emitted) :
       /\ emitted[i].rec["project"] = emitted[i].board["name"]
       /\ emitted[i].rec["kanboardboard"] = emitted[i].board["name"]
       /\ emitted[i].rec["kanboardlist"] = emitted[i].list["title"]

\* The methods of the calls issued so far.
Called(method) == SelectSeq(calls, LAMBDA c : c.method = method)

\* The entries of the board enumeration that have been walked to their end.
WalkedEntries == {e \in 1..bi : e < bi \/ pc \in {"boards", "done"}}

\* C7: with include_boards set, get_boards yields the board of each
\* configured id, fetched by that id, in configured order and as often as
\* configured, and never fetches all projects; without it, it yields the
\* remote boards in remote order.  Nothing is dropped as a duplicate: two
\* entries of the enumeration that name the same board emit the same records.
C7_BoardsAsConfigured ==
  /\ Has("include_boards") =>
       /\ Len(yielded) <= Len(config["include_boards"])
       /\ \A i \in 1..Len(yielded) :
            yielded[i] = get_project_by_id(config["include_boards"][i])
       /\ Called("get_all_projects") = <<>>
       /\ LET byId == Called("get_project_by_id")
          IN  /\ Len(byId) = Len(yielded)
              /\ \A i \in 1..Len(byId) :
                   byId[i].params["project_id"] = IntArg(config["include_boards"][i])
       /\ pc = "done" => Len(yielded) = Len(config["include_boards"])
  /\ ~Has("include_boards") =>
       /\ Len(yielded) <= Len(remote.projects)
       /\ \A i \in 1..Len(yielded) : yielded[i] = Some(remote.projects[i])
       /\ Called("get_project_by_id") = <<>>
       /\ pc = "done" => Len(yielded) = Len(remote.projects)
  /\ \A i \in WalkedEntries, j \in WalkedEntries :
       yielded[i] = yielded[j] => RecordsOf(i) = RecordsOf(j)

\* C7 witness: a run that ended after walking a board configured twice, with
\* the board's records emitted both times.
C7_Witness ==
  /\ pc = "done"
  /\ Has("include_boards")
  /\ \E i \in 1..bi, j \in 1..bi :
       /\ i < j
       /\ config["include_boards"][i] = config["include_boards"][j]
       /\ RecordsOf(i) # <<>>
       /\ RecordsOf(j) = RecordsOf(i)

\* The base URL carries a scheme.
HasScheme(url) == StartsWith(url, HTTP_SCHEME) \/ StartsWith(url, HTTPS_SCHEME)

\* C10: the client is bound to the base URL as configured when it carries a
\* scheme, and to https:// followed by the base URL when it carries none.
C10_UrlNormalized ==
  KANBOARD_CONNECTION # None =>
    KANBOARD_CONNECTION[1].url =
      IF HasScheme(config["base_url"]) THEN config["base_url"]
      ELSE HTTPS_SCHEME \o config["base_url"]

-----------------------------------------------------------------------------
(* The fetch operations on their own: a caller invokes them in any order,   *)
(* with any argument.  get_boards is a generator the caller advances one    *)
(* next() at a time, with other operations in between; the other generators *)
(* touch the service in their first next() only and are read to their end.  *)
(* ret holds what the latest operation gave back, together with the         *)
(* connection as it was before.                                             *)

\* The longest log of calls the caller lets build up.
MaxCalls == 3

\* The arguments the caller passes.
FetchListIds == {remote.columns[2]["id"], remote.columns[4]["id"]}

FetchCardIds == {1, 100}

Fetched(op, arg, out) ==
  /\ ret' = Some([op |-> op, arg |-> arg, before |-> KANBOARD_CONNECTION,
                  err |-> out.err, val |-> out.val])
  /\ Keep(out)
  /\ UNCHANGED <<config, remote, pc, error, emitted>>

\* next() on the generator get_boards; the first next() of a new generator
\* when the last one has ended.
BoardsNext ==
  /\ pc = "fetch"
  /\ Len(calls) < MaxCalls
  /\ LET nxt == get_boards_next(Svc, bi, boardsBuf)
     IN  /\ Fetched("get_boards", <<>>, nxt)
         /\ IF nxt.err # "" \/ nxt.val.stop
            THEN bi' = 0 /\ boardsBuf' = <<>> /\ yielded' = <<>>
            ELSE /\ bi' = bi + 1
                 /\ boardsBuf' = nxt.val.buf
                 /\ yielded' = Append(yielded, nxt.val.board)
  /\ UNCHANGED <<board, lists, li, lst, listextra, cards, ci, card, subtasks, si,
                 enumerated>>

FetchLists ==
  /\ pc = "fetch"
  /\ Len(calls) < MaxCalls
  /\ \E b \in ConfigurableBoardIds : Fetched("get_lists", b, get_lists(Svc, b))
  /\ UNCHANGED iterVars

FetchCards ==
  /\ pc = "fetch"
  /\ Len(calls) < MaxCalls
  /\ \E l \in FetchListIds : Fetched("get_cards", l, get_cards(Svc, l))
  /\ UNCHANGED iterVars

FetchSubtasks ==
  /\ pc = "fetch"
  /\ Len(calls) < MaxCalls
  /\ \E c \in FetchCardIds : Fetched("get_subtasks", c, get_subtasks(Svc, IntArg(c)))
  /\ UNCHANGED iterVars

FetchComments ==
  /\ pc = "fetch"
  /\ Len(calls) < MaxCalls
  /\ \E c \in FetchCardIds : Fetched("get_comments", c, get_comments(Svc, c))
  /\ UNCHANGED iterVars

NextFetch == BoardsNext \/ FetchLists \/ FetchCards \/ FetchSubtasks \/ FetchComments

FetchConfigs ==
  { DefaultAuth,
    [api_key |-> "key", base_url |-> <<"k", ".", "i", "o">>],
    [api_key |-> "key", token |-> "key"] }
    \cup { DefaultAuth @@ [include_boards |-> ids] : ids \in {<<1, 2>>, <<2, 2>>, <<3, 1>>} }

InitFetch ==
  /\ config \in FetchConfigs
  /\ remote = Remote(0, "absent", MaxSubtasks, "reject", <<>>)
  /\ pc = "fetch"
  /\ InitService

SpecFetch == InitFetch /\ [][NextFetch]_vars

\* C8: the connection is constructed at most once, by the first operation
\* that needs it; an operation that finds it set leaves it as it is; every
\* call is made on that one object, none while there is no connection.
C8_OneConnection ==
  /\ constructed <= 1
  /\ KANBOARD_CONNECTION = None <=> constructed = 0
  /\ ret # None /\ ret[1].before # None => KANBOARD_CONNECTION = ret[1].before
  /\ \A i \in 1..Len(calls) :
       /\ calls[i].conn # None
       /\ calls[i].conn = KANBOARD_CONNECTION

\* C8 witness: get_lists ran between two boards of get_boards, found the
\* connection set and left it alone, and all three calls were made on it.
C8_Witness ==
  /\ Len(calls) = 3
  /\ calls[1].method = "get_project_by_id"
  /\ calls[2].method = "get_columns"
  /\ calls[3].method = "get_project_by_id"
  /\ ret[1].before # None
  /\ KANBOARD_CONNECTION = ret[1].before
  /\ constructed = 1

-----------------------------------------------------------------------------
(* get_lists on its own, applied once to a board under every pair of        *)
(* include_lists and exclude_lists.                                         *)

\* An include_lists or exclude_lists option: absent, or a list of titles.
TitleOptions(opt) ==
  {NoOption} \cup {(opt :> titles) : titles \in SeqsUpTo(Titles, MaxTitles)}

ListConfigs ==
  { DefaultAuth @@ i @@ e :
      i \in TitleOptions("include_lists"), e \in TitleOptions("exclude_lists") }

GetLists ==
  /\ pc = "fetch"
  /\ ret = None
  /\ \E b \in ConfigurableBoardIds : Fetched("get_lists", b, get_lists(Svc, b))
  /\ UNCHANGED iterVars

InitLists ==
  /\ config \in ListConfigs
  /\ remote = Remote(0, "absent", MaxSubtasks, "reject", <<>>)
  /\ pc = "fetch"
  /\ InitService

SpecLists == InitLists /\ [][GetLists]_vars

\* A configured list of titles that is set and not empty.
Configured(opt) == Has(opt) /\ Len(config[opt]) > 0

\* C3: get_lists returns the remote columns of the board, in remote order,
\* whose title is in include_lists when that is set and not empty, and is
\* not in exclude_lists when that is set and not empty; an empty result is
\* an empty sequence and no error.
C3_ListsFiltered ==
  (ret # None /\ ret[1].op = "get_lists") =>
    /\ ret[1].err = ""
    /\ ret[1].val =
         SelectSeq(get_columns(ret[1].arg),
                   LAMBDA l :
                     /\ Configured("include_lists") =>
                          \E i \in 1..Len(config["include_lists"]) :
                            config["include_lists"][i] = l["title"]
                     /\ Configured("exclude_lists") =>
                          \A i \in 1..Len(config["exclude_lists"]) :
                            config["exclude_lists"][i] # l["title"])

\* C3 witness: both filters set, and get_lists kept some columns of the board
\* and dropped others, one of them for exclude_lists.
C3_Witness ==
  /\ ret # None /\ ret[1].op = "get_lists" /\ ret[1].err = ""
  /\ Configured("include_lists") /\ Configured("exclude_lists")
  /\ Len(ret[1].val) > 0
  /\ Len(ret[1].val) < Len(get_columns(ret[1].arg))
  /\ Len(ret[1].val) <
       Len(SelectSeq(get_columns(ret[1].arg),
                     LAMBDA l : InList(l["title"], config["include_lists"])))

-----------------------------------------------------------------------------
(* Properties of the records of a run. *)

\* C2: the records of one card and of its subtasks carry pairwise distinct
\* uniqueness keys.
C2_DistinctKeys ==
  \A i \in 1..Len(emitted), j \in 1..Len(emitted) :
    (/\ i # j
     /\ emitted[i].card = emitted[j].card
     /\ emitted[i].entry = emitted[j].entry
     /\ emitted[i].list = emitted[j].list)
      => UniqueKey(emitted[i].rec) # UniqueKey(emitted[j].rec)

\* The remote record an emitted record was made of.
SourceOf(e) ==
  IF e.kind = "card"
  THEN SelectSeq(remote.tasks, LAMBDA t : t["id"] = e.id)[1]
  ELSE SelectSeq(remote.subtasks, LAMBDA t : t["id"] = e.id)[1]

\* The tag of a label name under the template in force.
IsTagOf(tag, name) ==
  IF Has("label_template")
  THEN tag = name
  ELSE /\ Len(tag) = Len(name)
       /\ \A k \in 1..Len(name) : tag[k] = IF name[k] = " " THEN "_" ELSE name[k]

\* C9: a record has a tags field exactly when import_labels_as_tags is set
\* to a true value, and then the field holds one rendered tag per label of
\* the card or subtask, in label order.
C9_TagsIffImported ==
  \A i \in 1..Len(emitted) :
    LET twdict == emitted[i].rec
        labels == SourceOf(emitted[i])["labels"]
    IN  /\ "tags" \in DOMAIN twdict <=>
             (Has("import_labels_as_tags") /\ config["import_labels_as_tags"] \in {"true", "1"})
        /\ "tags" \in DOMAIN twdict =>
             /\ Len(twdict["tags"]) = Len(labels)
             /\ \A k \in 1..Len(labels) : IsTagOf(twdict["tags"][k], labels[k]["name"])

\* C9 witness: a subtask with two labels or more was emitted with its tags,
\* one of them rendered from a name with a space in it.
C9_Witness ==
  \E i \in 1..Len(emitted) :
    /\ emitted[i].kind = "subtask"
    /\ "tags" \in DOMAIN emitted[i].rec
    /\ Len(emitted[i].rec["tags"]) >= 2
    /\ \E k \in 1..Len(emitted[i].rec["tags"]) :
         /\ InList(" ", SourceOf(emitted[i])["labels"][k]["name"])
         /\ ~InList(" ", emitted[i].rec["tags"][k])

====
